---- MODULE Spec2Model ----
(***************************************************************************)
(* Model of vscode-client/extension.ts: the language-client connection     *)
(* (restart_client, activate, deactivate) and the DisposableMap registry   *)
(* of project-file watchers.                                               *)
(*                                                                         *)
(* JavaScript runs the handlers on one thread: a handler runs to its next  *)
(* await without interruption, and the continuation of an await runs as a  *)
(* microtask right after the awaited promise settles, before any other     *)
(* event is delivered.  One action is therefore one synchronous stretch.   *)
(*                                                                         *)
(* The LanguageClient class is imported from vscode-languageclient; its    *)
(* state machine (ClientState, needsStart, needsStop, start, stop) is      *)
(* modelled after that library, release 7, which the call                  *)
(* context.subscriptions.push(client.start()) fixes (start returns a       *)
(* Disposable there).  The outcome of starting and of halting the server   *)
(* process is chosen by the environment.                                   *)
(***************************************************************************)
EXTENDS Integers, Sequences, FiniteSets, TLC

\* ---------------------------------------------------------------- bounds
\* number of restart_client invocations
MaxRestarts == 2
\* number of workspace-folder change events delivered
MaxFolderEvents == 1
\* number of registry calls in the registry-only specification
MaxCalls == 5

\* number of create_project invocations
MaxProjects == 1
\* number of create_project invocations where create_project is taken on its own
MaxCreates == 2

\* the workspace folders, by uri; two of them share one fsPath
Folders == {"file:///a", "file:///b", "mem:/a"}

\* wsf.uri.fsPath: the key of a folder's watcher
fsPath(wsf) == IF wsf = "file:///b" THEN "/b" ELSE "/a"

Keys == {fsPath(f) : f \in Folders}

\* the folders that hold a hdl-prj.json when the extension is loaded
InitialDescriptors == {{}, {"file:///a"}}

\* the workspace folders open when the extension is activated: none, one, two
\* with different keys, two with the same key
InitialFolders ==
    {<<>>, <<"file:///a">>, <<"file:///a", "file:///b">>, <<"file:///a", "mem:/a">>}

\* vscode.Uri.file(wsf.uri.path + path.sep + 'hdl-prj.json'): the place on the
\* local disk that create_project writes, whatever the scheme of the folder
projectFile(wsf) == IF wsf = "mem:/a" THEN "file:///a" ELSE wsf

VARIABLES
    client,            \* the LanguageClient (state "undefined" before activate)
    restarts,          \* the invocations of restart_client, in order of invocation
    m_map,             \* DisposableMap.m_map, entries in insertion order
    watchers,          \* every FileSystemWatcher created so far
    workspaceFolders,  \* vscode.workspace.workspaceFolders
    phase,             \* "loaded", "active", "deactivated", "disposed"
    ret,               \* what the last registry call returned
    lastOp,            \* the last registry call made and its key
    nFolderEvents,     \* workspace-folder change events delivered so far
    setOk,             \* set calls that returned true
    delOk,             \* dispose_and_delete calls that returned true
    nCalls,            \* registry calls made in the registry-only specification
    projects,          \* the invocations of create_project, in order of invocation
    descriptors        \* the folders that hold a hdl-prj.json

vars == <<client, restarts, m_map, watchers, workspaceFolders, phase, ret,
          lastOp, nFolderEvents, setOk, delOk, nCalls, projects, descriptors>>

\* ------------------------------------------------- the language client
\* let client: LanguageClient  (undefined until activate assigns it)
NoClient ==
    [state |-> "undefined", connection |-> 0, onStop |-> 0, promises |-> <<>>,
     spawned |-> 0, live |-> {},
     unguarded |-> FALSE, by |-> {}]

\* new LanguageClient(...): ClientState.Initial, no connection yet
NewClient == [NoClient EXCEPT !.state = "Initial"]

needsStart(c) == c.state \in {"Initial", "Stopping", "Stopped"}

needsStop(c) == c.state \in {"Starting", "Running"}

\* client.start(): the state becomes Starting; resolveConnection() spawns the
\* server only when no connection promise exists.  unguarded and by record
\* the call: whether needsStart held, and who called.
start(c, who) ==
    LET spawn == c.connection = 0
        g == c.spawned + 1
    IN [c EXCEPT !.state = "Starting",
                 !.connection = IF spawn THEN g ELSE @,
                 !.spawned = IF spawn THEN g ELSE @,
                 !.live = IF spawn THEN @ \cup {g} ELSE @,
                 !.unguarded = @ \/ ~needsStart(c),
                 !.by = @ \cup {who}]

\* client.stop(): returns the client and the promise the caller may await
\* (0: a promise that is already resolved).
stop(c, who) ==
    LET h == [c EXCEPT !.by = @ \cup {who}]
        n == Len(c.promises) + 1
    IN IF c.connection = 0
       THEN [client |-> [h EXCEPT !.state = "Stopped"], promise |-> 0]
       ELSE IF c.state = "Stopping" /\ c.onStop # 0
       THEN [client |-> h, promise |-> c.onStop]
       ELSE [client |-> [h EXCEPT !.state = "Stopping",
                                  !.onStop = n,
                                  !.promises = Append(@, [conn |-> c.connection,
                                                          status |-> "pending"])],
             promise |-> n]

\* the continuation inside stop(): the server has shut down, the connection
\* is disposed
stopped(c, i) ==
    [c EXCEPT !.state = "Stopped",
              !.onStop = 0,
              !.connection = 0,
              !.live = @ \ {c.promises[i].conn},
              !.promises[i].status = "resolved"]

\* the shutdown request fails (write after end): the promise rejects and the
\* client keeps its state
stopFailed(c, i) == [c EXCEPT !.promises[i].status = "rejected"]

\* ------------------------------------------------------ restart_client
\* one invocation: where it stands (pc), the promise it awaits, whether it
\* called stop and start, the state it found the client in, and the
\* invocations that were suspended when it was made
Idle == [pc |-> "idle", awaited |-> 0, halted |-> FALSE, started |-> FALSE,
         found |-> "undefined", during |-> {}]

\* restart_tail that never starts the client
restart_tail_nostart(c, r) == [client |-> c, inv |-> [r EXCEPT !.pc = "done"]]

\* restart_tail without the needsStart test
restart_tail_unguarded(c, r) ==
    [client |-> start(c, "restart_client"),
     inv |-> [r EXCEPT !.pc = "done", !.started = TRUE]]

\* if (client.needsStart()) { client.start() }: the end of restart_client
restart_tail(c, r) ==
    IF needsStart(c)
    THEN [client |-> start(c, "restart_client"),
          inv |-> [r EXCEPT !.pc = "done", !.started = TRUE]]
    ELSE [client |-> c, inv |-> [r EXCEPT !.pc = "done"]]

\* restart_client without the await: stop() is called and not waited for
restart_client_noawait(c, r) ==
    IF c.state = "undefined"
    THEN [client |-> c, inv |-> [r EXCEPT !.pc = "done"]]
    ELSE IF needsStop(c)
    THEN LET s == stop(c, "restart_client")
         IN restart_tail(s.client, [r EXCEPT !.halted = TRUE, !.awaited = s.promise])
    ELSE restart_tail(c, r)

\* restart_client without the test of client: client.needsStop() throws a
\* TypeError when client is undefined
restart_client_noguard(c, r) ==
    IF c.state = "undefined"
    THEN [client |-> c, inv |-> [r EXCEPT !.pc = "rejected"]]
    ELSE IF needsStop(c)
    THEN LET s == stop(c, "restart_client")
             h == [r EXCEPT !.halted = TRUE, !.awaited = s.promise]
         IN IF s.promise = 0
            THEN restart_tail(s.client, h)
            ELSE [client |-> s.client, inv |-> [h EXCEPT !.pc = "awaitStop"]]
    ELSE restart_tail(c, r)

\* restart_client up to its await: r is the invocation's record
restart_client(c, r) ==
    IF c.state = "undefined"
    THEN [client |-> c, inv |-> [r EXCEPT !.pc = "done"]]
    ELSE IF needsStop(c)
    THEN LET s == stop(c, "restart_client")
             h == [r EXCEPT !.halted = TRUE, !.awaited = s.promise]
         IN IF s.promise = 0
            THEN restart_tail(s.client, h)
            ELSE IF s.client.promises[s.promise].status = "rejected"
            THEN [client |-> s.client, inv |-> [h EXCEPT !.pc = "rejected"]]
            ELSE [client |-> s.client, inv |-> [h EXCEPT !.pc = "awaitStop"]]
    ELSE restart_tail(c, r)

\* restart_client after its await, when promise i has settled
restart_resume(c, r, i) ==
    IF c.promises[i].status = "rejected"
    THEN [client |-> c, inv |-> [r EXCEPT !.pc = "rejected"]]
    ELSE restart_tail(c, r)

\* the invocations suspended on promise i resume in the order they awaited it
RECURSIVE resume_all(_, _, _, _)
resume_all(c, rs, i, p) ==
    IF p > Len(rs) THEN [client |-> c, restarts |-> rs]
    ELSE IF rs[p].pc = "awaitStop" /\ rs[p].awaited = i
    THEN LET x == restart_resume(c, rs[p], i)
         IN resume_all(x.client, [rs EXCEPT ![p] = x.inv], i, p + 1)
    ELSE resume_all(c, rs, i, p + 1)

Awaiting(rs) == {p \in 1..Len(rs) : rs[p].pc = "awaitStop"}

\* a trigger invokes restart_client: a new invocation runs up to its await
invoke_restart(c, rs) ==
    LET x == restart_client(c, [Idle EXCEPT !.found = c.state,
                                            !.during = Awaiting(rs)])
    IN [client |-> x.client, restarts |-> Append(rs, x.inv)]

\* ------------------------------------------------------- DisposableMap
has(m, key) == \E i \in 1..Len(m) : m[i].key = key

get(m, key) == m[CHOOSE i \in 1..Len(m) : m[i].key = key].value

delete(m, key) == SelectSeq(m, LAMBDA e : e.key # key)

\* vscode.Disposable.dispose() of watcher d
disposeWatcher(ws, d) == [ws EXCEPT ![d].disposed = @ + 1]

\* set that reports success whether or not it stored the disposable
set_always_true(m, key, disposable) ==
    IF ~has(m, key)
    THEN [map |-> Append(m, [key |-> key, value |-> disposable]), ret |-> TRUE]
    ELSE [map |-> m, ret |-> TRUE]

\* set without the has test: Map.set replaces the value of a present key
set_overwrite(m, key, disposable) ==
    IF ~has(m, key)
    THEN [map |-> Append(m, [key |-> key, value |-> disposable]), ret |-> TRUE]
    ELSE [map |-> [i \in 1..Len(m) |->
                      IF m[i].key = key THEN [key |-> key, value |-> disposable]
                      ELSE m[i]],
          ret |-> FALSE]

\* if (!this.m_map.has(key)) { this.m_map.set(key, disposable); return true }
\* return false
set(m, key, disposable) ==
    IF ~has(m, key)
    THEN [map |-> Append(m, [key |-> key, value |-> disposable]), ret |-> TRUE]
    ELSE [map |-> m, ret |-> FALSE]

\* dispose_and_delete that deletes the entry and does not dispose it
delete_only(m, ws, key) ==
    IF has(m, key)
    THEN [map |-> delete(m, key), watchers |-> ws, ret |-> TRUE]
    ELSE [map |-> m, watchers |-> ws, ret |-> FALSE]

\* dispose_and_delete that disposes the entry and leaves it in the map
dispose_only(m, ws, key) ==
    IF has(m, key)
    THEN [map |-> m, watchers |-> disposeWatcher(ws, get(m, key)), ret |-> TRUE]
    ELSE [map |-> m, watchers |-> ws, ret |-> FALSE]

\* if (has(key)) { get(key).dispose(); delete(key); return true } return false
dispose_and_delete(m, ws, key) ==
    IF has(m, key)
    THEN [map |-> delete(m, key), watchers |-> disposeWatcher(ws, get(m, key)),
          ret |-> TRUE]
    ELSE [map |-> m, watchers |-> ws, ret |-> FALSE]

\* dispose that leaves out the entry registered last
RECURSIVE dispose_but_last(_, _, _)
dispose_but_last(m, ws, i) ==
    IF i >= Len(m) THEN ws
    ELSE dispose_but_last(m, disposeWatcher(ws, m[i].value), i + 1)

\* this.m_map.forEach(disposable => disposable.dispose()), in insertion order,
\* from entry i on
RECURSIVE dispose(_, _, _)
dispose(m, ws, i) ==
    IF i > Len(m) THEN ws
    ELSE dispose(m, disposeWatcher(ws, m[i].value), i + 1)

\* vscode.workspace.createFileSystemWatcher(new RelativePattern(wsf, 'hdl-prj.json'))
createFileSystemWatcher(ws, root) ==
    Append(ws, [root |-> root, disposed |-> 0, handlers |-> {}])

\* watcher.onDidChange(restart_client), onDidCreate, onDidDelete: restart_client
\* becomes the listener of event ev of watcher w
on(ws, w, ev) == [ws EXCEPT ![w].handlers = @ \cup {ev}]

\* let watcher = createFileSystemWatcher(...); watcher.onDidChange(restart_client);
\* watcher.onDidCreate(restart_client); watcher.onDidDelete(restart_client)
watch(ws, root) ==
    LET w == createFileSystemWatcher(ws, root)
    IN on(on(on(w, Len(w), "onDidChange"), Len(w), "onDidCreate"), Len(w), "onDidDelete")

\* workspaceFolders.forEach(wsf => { watcher = create...; map.set(fsPath, watcher) })
RECURSIVE watch_folders(_, _, _, _, _)
watch_folders(m, ws, n, folders, i) ==
    IF i > Len(folders) THEN [map |-> m, watchers |-> ws, setOk |-> n]
    ELSE LET w == watch(ws, folders[i])
             s == set(m, fsPath(folders[i]), Len(w))
         IN watch_folders(s.map, w, IF s.ret THEN n + 1 ELSE n, folders, i + 1)

\* event.added.forEach(wsf => { if (!map.has(fsPath)) { watcher = ...; map.set(...) } })
RECURSIVE folders_added(_, _, _, _, _)
folders_added(m, ws, n, added, i) ==
    IF i > Len(added) THEN [map |-> m, watchers |-> ws, setOk |-> n]
    ELSE IF ~has(m, fsPath(added[i]))
    THEN LET w == watch(ws, added[i])
             s == set(m, fsPath(added[i]), Len(w))
         IN folders_added(s.map, w, IF s.ret THEN n + 1 ELSE n, added, i + 1)
    ELSE folders_added(m, ws, n, added, i + 1)

\* event.removed.forEach(wsf => map.dispose_and_delete(fsPath))
RECURSIVE folders_removed(_, _, _, _, _)
folders_removed(m, ws, n, removed, i) ==
    IF i > Len(removed) THEN [map |-> m, watchers |-> ws, delOk |-> n]
    ELSE LET d == dispose_and_delete(m, ws, fsPath(removed[i]))
         IN folders_removed(d.map, d.watchers, IF d.ret THEN n + 1 ELSE n,
                            removed, i + 1)

\* ------------------------------------------------------------- actions
Range(s) == {s[i] : i \in 1..Len(s)}

\* the lists of at most n distinct folders
FolderLists(n) ==
    {s \in UNION {[1..k -> Folders] : k \in 0..n} :
        \A i, j \in 1..Len(s) : i # j => s[i] # s[j]}

Init ==
    /\ client = NoClient
    /\ restarts = <<>>
    /\ m_map = <<>>
    /\ watchers = <<>>
    /\ workspaceFolders \in InitialFolders
    /\ phase = "loaded"
    /\ ret = FALSE
    /\ lastOp = [op |-> "none", key |-> ""]
    /\ nFolderEvents = 0
    /\ setOk = 0
    /\ delOk = 0
    /\ nCalls = 0
    /\ projects = <<>>
    /\ descriptors \in InitialDescriptors

\* activate(context)
Activate ==
    /\ phase = "loaded"
    /\ LET r == watch_folders(m_map, watchers, setOk, workspaceFolders, 1)
       IN /\ m_map' = r.map
          /\ watchers' = r.watchers
          /\ setOk' = r.setOk
    /\ client' = start(NewClient, "activate")
    /\ phase' = "active"
    /\ UNCHANGED <<lastOp, restarts, workspaceFolders, ret, nFolderEvents, delOk,
                   nCalls, projects, descriptors>>

\* restart_client called while no client has been created
RestartCall ==
    /\ phase = "loaded"
    /\ Len(restarts) < MaxRestarts
    /\ LET x == invoke_restart(client, restarts)
       IN /\ client' = x.client
          /\ restarts' = x.restarts
    /\ UNCHANGED <<lastOp, m_map, watchers, workspaceFolders, phase, ret, nFolderEvents,
                   setOk, delOk, nCalls, projects, descriptors>>

\* watcher.onDidChange / onDidCreate / onDidDelete (restart_client): watcher w,
\* which has not been disposed, reports event ev of its folder's hdl-prj.json
\* to the listener of that event
FileEvent(w, ev) ==
    /\ watchers[w].disposed = 0
    /\ ev \in watchers[w].handlers
    /\ Len(restarts) < MaxRestarts
    /\ LET x == invoke_restart(client, restarts)
       IN /\ client' = x.client
          /\ restarts' = x.restarts
    /\ UNCHANGED <<lastOp, m_map, watchers, workspaceFolders, phase, ret, nFolderEvents,
                   setOk, delOk, nCalls, projects, descriptors>>

\* the promise of stop() number i settles; the invocations of restart_client
\* that await it resume
StopSettles(i, ok) ==
    /\ client.promises[i].status = "pending"
    /\ ok => client.promises[i].conn \in client.live
    /\ LET c == IF ok THEN stopped(client, i) ELSE stopFailed(client, i)
           x == resume_all(c, restarts, i, 1)
       IN /\ client' = x.client
          /\ restarts' = x.restarts
    /\ UNCHANGED <<lastOp, m_map, watchers, workspaceFolders, phase, ret, nFolderEvents,
                   setOk, delOk, nCalls, projects, descriptors>>

\* the server answers initialize (Running) or fails to start (StartFailed)
StartSettles(ok) ==
    /\ client.state = "Starting"
    /\ client' = [client EXCEPT !.state = IF ok THEN "Running" ELSE "StartFailed"]
    /\ UNCHANGED <<lastOp, restarts, m_map, watchers, workspaceFolders, phase, ret,
                   nFolderEvents, setOk, delOk, nCalls, projects, descriptors>>

\* vscode.workspace.onDidChangeWorkspaceFolders(event => ...): the listener is
\* not pushed to context.subscriptions, so it outlives their disposal
WorkspaceFoldersChanged(added, removed) ==
    /\ phase # "loaded"
    /\ nFolderEvents < MaxFolderEvents
    /\ Len(added) + Len(removed) > 0
    /\ Range(added) \cap Range(workspaceFolders) = {}
    /\ Range(removed) \subseteq Range(workspaceFolders)
    /\ LET a == folders_added(m_map, watchers, setOk, added, 1)
           r == folders_removed(a.map, a.watchers, delOk, removed, 1)
       IN /\ m_map' = r.map
          /\ watchers' = r.watchers
          /\ setOk' = a.setOk
          /\ delOk' = r.delOk
    /\ workspaceFolders' =
           SelectSeq(workspaceFolders, LAMBDA f : f \notin Range(removed)) \o added
    /\ nFolderEvents' = nFolderEvents + 1
    /\ UNCHANGED <<lastOp, client, restarts, phase, ret, nCalls, projects, descriptors>>

\* deactivate(): return client.stop()
Deactivate ==
    /\ phase = "active"
    /\ client' = IF client.state = "undefined" THEN client
                 ELSE stop(client, "deactivate").client
    /\ phase' = "deactivated"
    /\ UNCHANGED <<lastOp, restarts, m_map, watchers, workspaceFolders, ret,
                   nFolderEvents, setOk, delOk, nCalls, projects, descriptors>>

\* the extension host disposes context.subscriptions: the Disposable that
\* client.start() returned (it stops a client that needs stopping), the
\* commands, and the DisposableMap
DisposeSubscriptions ==
    /\ phase = "deactivated"
    /\ client' = IF needsStop(client) THEN stop(client, "subscriptions").client
                 ELSE client
    /\ watchers' = dispose(m_map, watchers, 1)
    /\ phase' = "disposed"
    /\ UNCHANGED <<lastOp, restarts, m_map, workspaceFolders, ret, nFolderEvents,
                   setOk, delOk, nCalls, projects, descriptors>>

\* ------------------------------------------------------ create_project
NewProject == [pc |-> "start", folders |-> <<>>, selected |-> "", wrote |-> FALSE,
               overwrote |-> FALSE]

\* write_project that calls client.start() itself where the code calls
\* restart_client
write_project_start(j, ok) ==
    IF ok
    THEN /\ Len(restarts) < MaxRestarts
         /\ descriptors' = descriptors \cup {projectFile(projects[j].selected)}
         /\ client' = start(client, "create_project")
         /\ restarts' = restarts
         /\ projects' = [projects EXCEPT
                ![j].pc = "done",
                ![j].wrote = TRUE,
                ![j].overwrote = projectFile(projects[j].selected) \in descriptors]
    ELSE /\ projects' = [projects EXCEPT ![j].pc = "done"]
         /\ UNCHANGED <<client, restarts, descriptors>>

\* fs.writeFileSync(...) and what follows it: the descriptor is written and
\* restart_client is invoked, or the write throws and create_project returns
write_project(j, ok) ==
    IF ok
    THEN LET x == invoke_restart(client, restarts)
         IN /\ Len(restarts) < MaxRestarts
            /\ descriptors' = descriptors \cup {projectFile(projects[j].selected)}
            /\ client' = x.client
            /\ restarts' = x.restarts
            /\ projects' = [projects EXCEPT
                   ![j].pc = "done",
                   ![j].wrote = TRUE,
                   ![j].overwrote = projectFile(projects[j].selected) \in descriptors]
    ELSE /\ projects' = [projects EXCEPT ![j].pc = "done"]
         /\ UNCHANGED <<client, restarts, descriptors>>

\* create_project up to its first await, the n-th invocation at most
create_project(n) ==
    /\ phase \in {"active", "deactivated"}
    /\ Len(projects) < n
    /\ projects' = Append(projects,
           IF workspaceFolders = <<>> THEN [NewProject EXCEPT !.pc = "done"]
           ELSE IF Len(workspaceFolders) = 1
           THEN [NewProject EXCEPT !.pc = "findPrj", !.selected = workspaceFolders[1]]
           ELSE [NewProject EXCEPT !.pc = "pick", !.folders = workspaceFolders])
    /\ UNCHANGED <<lastOp, client, restarts, m_map, watchers, workspaceFolders, phase,
                   ret, nFolderEvents, setOk, delOk, nCalls, descriptors>>

\* the command ghdl-ls.createproject
CreateProject == create_project(MaxProjects)

\* the command ghdl-ls.createproject, where create_project is taken on its own
CreateProjectAgain == create_project(MaxCreates)

\* showQuickPick(folders) resolves: index 0 stands for a dismissed pick, whose
\* result.index throws
PickFolder(j, index) ==
    /\ projects[j].pc = "pick"
    /\ index <= Len(projects[j].folders)
    /\ projects' = [projects EXCEPT ![j] =
           IF index = 0 THEN [@ EXCEPT !.pc = "rejected", !.folders = <<>>]
           ELSE [@ EXCEPT !.pc = "findPrj", !.selected = projects[j].folders[index],
                          !.folders = <<>>]]
    /\ UNCHANGED <<lastOp, client, restarts, m_map, watchers, workspaceFolders, phase,
                   ret, nFolderEvents, setOk, delOk, nCalls, descriptors>>

\* findFiles(hdl-prj.json) resolves
FoundProjectFile(j) ==
    /\ projects[j].pc = "findPrj"
    /\ projects' = [projects EXCEPT ![j].pc =
           IF projects[j].selected \in descriptors THEN "done" ELSE "findVhd"]
    /\ UNCHANGED <<lastOp, client, restarts, m_map, watchers, workspaceFolders, phase,
                   ret, nFolderEvents, setOk, delOk, nCalls, descriptors>>

\* findFiles(**/*.vhd) resolves with n files; with none the descriptor is
\* written in the same stretch
FoundVhdlFiles(j, n, ok) ==
    /\ projects[j].pc = "findVhd"
    /\ IF n > 0
       THEN /\ projects' = [projects EXCEPT ![j].pc = "askAdd"]
            /\ ok
            /\ UNCHANGED <<client, restarts, descriptors>>
       ELSE write_project(j, ok)
    /\ UNCHANGED <<lastOp, m_map, watchers, workspaceFolders, phase, ret,
                   nFolderEvents, setOk, delOk, nCalls>>

\* showQuickPick(Yes/No) resolves; a dismissed pick throws at result.bool_value
AnswerAddFiles(j, answer, ok) ==
    /\ projects[j].pc = "askAdd"
    /\ IF answer = "dismissed"
       THEN /\ projects' = [projects EXCEPT ![j].pc = "rejected"]
            /\ ok
            /\ UNCHANGED <<client, restarts, descriptors>>
       ELSE write_project(j, ok)
    /\ UNCHANGED <<lastOp, m_map, watchers, workspaceFolders, phase, ret,
                   nFolderEvents, setOk, delOk, nCalls>>

\* the connection: activation, the triggers of restart_client, the settling
\* of the client's promises, shutdown
Next ==
    \/ Activate
    \/ RestartCall
    \/ \E w \in 1..Len(watchers) :
          \E ev \in {"onDidChange", "onDidCreate", "onDidDelete"} : FileEvent(w, ev)
    \/ CreateProject
    \/ \E j \in 1..Len(projects) : \E index \in 0..Cardinality(Folders) :
          PickFolder(j, index)
    \/ \E j \in 1..Len(projects) : FoundProjectFile(j)
    \/ \E j \in 1..Len(projects) : \E n \in 0..1 : \E ok \in BOOLEAN :
          FoundVhdlFiles(j, n, ok)
    \/ \E j \in 1..Len(projects) : \E answer \in {"Yes", "No", "dismissed"} :
          \E ok \in BOOLEAN : AnswerAddFiles(j, answer, ok)
    \/ \E i \in 1..Len(client.promises) : \E ok \in BOOLEAN : StopSettles(i, ok)
    \/ \E ok \in BOOLEAN : StartSettles(ok)
    \/ Deactivate
    \/ DisposeSubscriptions

Spec == Init /\ [][Next]_vars

\* create_project on its own, in a workspace of local folders: activation, the
\* command, the answers to its prompts and searches, and the restart that a
\* written descriptor requests
InitProject ==
    /\ Init
    /\ workspaceFolders \in {<<"file:///a">>, <<"file:///a", "file:///b">>}

NextProject ==
    \/ Activate
    \/ CreateProjectAgain
    \/ \E j \in 1..Len(projects) : \E index \in 0..Cardinality(Folders) :
          PickFolder(j, index)
    \/ \E j \in 1..Len(projects) : FoundProjectFile(j)
    \/ \E j \in 1..Len(projects) : \E n \in 0..1 : \E ok \in BOOLEAN :
          FoundVhdlFiles(j, n, ok)
    \/ \E j \in 1..Len(projects) : \E answer \in {"Yes", "No", "dismissed"} :
          \E ok \in BOOLEAN : AnswerAddFiles(j, answer, ok)
    \/ \E i \in 1..Len(client.promises) : \E ok \in BOOLEAN : StopSettles(i, ok)
    \/ \E ok \in BOOLEAN : StartSettles(ok)

SpecProject == InitProject /\ [][NextProject]_vars

\* restart_client on its own: activation, the watcher events and direct calls
\* that invoke it, the settling of the client's promises, shutdown
NextRestart ==
    \/ Activate
    \/ RestartCall
    \/ \E w \in 1..Len(watchers) :
          \E ev \in {"onDidChange", "onDidCreate", "onDidDelete"} : FileEvent(w, ev)
    \/ \E i \in 1..Len(client.promises) : \E ok \in BOOLEAN : StopSettles(i, ok)
    \/ \E ok \in BOOLEAN : StartSettles(ok)
    \/ Deactivate
    \/ DisposeSubscriptions

\* a promise of stop() that is pending settles
SettleStop ==
    \E i \in 1..Len(client.promises) : \E ok \in BOOLEAN : StopSettles(i, ok)

\* the server answers the shutdown request or the transport fails: a pending
\* promise of stop() does not stay pending for ever
SpecRestart == Init /\ [][NextRestart]_vars /\ WF_vars(SettleStop)

\* the watchers: activation, workspace-folder changes, file events, shutdown
NextWatch ==
    \/ Activate
    \/ \E added, removed \in FolderLists(1) : WorkspaceFoldersChanged(added, removed)
    \/ \E w \in 1..Len(watchers) :
          \E ev \in {"onDidChange", "onDidCreate", "onDidDelete"} : FileEvent(w, ev)
    \/ \E i \in 1..Len(client.promises) : \E ok \in BOOLEAN : StopSettles(i, ok)
    \/ \E ok \in BOOLEAN : StartSettles(ok)
    \/ Deactivate
    \/ DisposeSubscriptions

SpecWatch == Init /\ [][NextWatch]_vars

\* every handler of the extension
NextAll ==
    \/ Next
    \/ \E added, removed \in FolderLists(1) : WorkspaceFoldersChanged(added, removed)

SpecAll == Init /\ [][NextAll]_vars

\* ------------------------------------------- the registry on its own
\* A DisposableMap driven by arbitrary calls; every set call is handed a newly
\* created watcher, as both callers in activate do.
InitMap == Init /\ workspaceFolders = <<>>

\* map.set(wsf.uri.fsPath, watcher) with a new watcher of folder wsf
CallSet(wsf) ==
    /\ nCalls < MaxCalls
    /\ LET w == watch(watchers, wsf)
           s == set(m_map, fsPath(wsf), Len(w))
       IN /\ m_map' = s.map
          /\ watchers' = w
          /\ ret' = s.ret
          /\ setOk' = IF s.ret THEN setOk + 1 ELSE setOk
    /\ nCalls' = nCalls + 1
    /\ lastOp' = [op |-> "set", key |-> fsPath(wsf)]
    /\ UNCHANGED <<client, restarts, workspaceFolders, phase, nFolderEvents, delOk,
                   projects, descriptors>>

\* map.dispose_and_delete(key)
CallDisposeAndDelete(key) ==
    /\ nCalls < MaxCalls
    /\ LET d == dispose_and_delete(m_map, watchers, key)
       IN /\ m_map' = d.map
          /\ watchers' = d.watchers
          /\ ret' = d.ret
          /\ delOk' = IF d.ret THEN delOk + 1 ELSE delOk
    /\ nCalls' = nCalls + 1
    /\ lastOp' = [op |-> "dispose_and_delete", key |-> key]
    /\ UNCHANGED <<client, restarts, workspaceFolders, phase, nFolderEvents, setOk,
                   projects, descriptors>>

\* a dispose() that also clears the map
CallDisposeAndClear ==
    /\ nCalls < MaxCalls
    /\ watchers' = dispose(m_map, watchers, 1)
    /\ m_map' = <<>>
    /\ nCalls' = nCalls + 1
    /\ lastOp' = [op |-> "dispose", key |-> ""]
    /\ UNCHANGED <<client, restarts, workspaceFolders, phase, ret,
                   nFolderEvents, setOk, delOk, projects, descriptors>>

\* map.dispose()
CallDispose ==
    /\ nCalls < MaxCalls
    /\ watchers' = dispose(m_map, watchers, 1)
    /\ nCalls' = nCalls + 1
    /\ lastOp' = [op |-> "dispose", key |-> ""]
    /\ UNCHANGED <<client, restarts, m_map, workspaceFolders, phase, ret,
                   nFolderEvents, setOk, delOk, projects, descriptors>>

\* map.has(key)
CallHas(key) ==
    /\ nCalls < MaxCalls
    /\ ret' = has(m_map, key)
    /\ nCalls' = nCalls + 1
    /\ lastOp' = [op |-> "has", key |-> key]
    /\ UNCHANGED <<client, restarts, m_map, watchers, workspaceFolders, phase,
                   nFolderEvents, setOk, delOk, projects, descriptors>>

NextMap ==
    \/ \E wsf \in Folders : CallSet(wsf)
    \/ \E key \in Keys : CallDisposeAndDelete(key)
    \/ CallDispose
    \/ \E key \in Keys : CallHas(key)

SpecMap == InitMap /\ [][NextMap]_vars

\* ------------------------------------------------------------ properties
Invocations == 1..Len(restarts)

\* C1: when restart_client is invoked a second time while the first
\* invocation is suspended awaiting the halt it requested, the two invocations
\* together call stop once and start once.
C1_HaltedOnceStartedOnce ==
    \A p, q \in Invocations :
        (/\ Len(restarts) = 2
         /\ phase = "active"
         /\ restarts[p].halted
         /\ p \in restarts[q].during
         /\ restarts[p].pc = "done"
         /\ restarts[q].pc = "done")
        => /\ Cardinality({x \in {p, q} : restarts[x].halted}) = 1
           /\ Cardinality({x \in {p, q} : restarts[x].started}) = 1

\* C2: however the invocations of restart_client interleave, at most one server
\* connection is live, and start is only ever called while needsStart holds.
C2_OneConnectionGuardedStart ==
    /\ Cardinality(client.live) <= 1
    /\ ~client.unguarded

\* two invocations overlapped, one triggered by create_project, and both called
\* start
C2_Witness ==
    /\ \E j \in 1..Len(projects) : projects[j].wrote
    /\ \E p, q \in Invocations :
          p \in restarts[q].during /\ restarts[p].started /\ restarts[q].started

\* C3: an invocation that called stop calls start only after the promise of
\* that stop has resolved; an invocation that finds the client startable
\* calls start and does not call stop.
C3_StartAfterHalt ==
    \A p \in Invocations :
        /\ (restarts[p].started /\ restarts[p].halted /\ restarts[p].awaited # 0)
              => client.promises[restarts[p].awaited].status = "resolved"
        /\ restarts[p].found \in {"Initial", "Stopping", "Stopped"}
              => restarts[p].started /\ ~restarts[p].halted

\* an invocation has halted the client, waited, and started it
C3_Witness ==
    \E p \in Invocations :
        restarts[p].halted /\ restarts[p].started /\ restarts[p].pc = "done"

\* C4: restart_client invoked while no client exists throws nothing and changes
\* nothing: no stop, no start, no client.
C4_NoClientNoOp ==
    [][(client.state = "undefined" /\ Len(restarts') > Len(restarts))
         => /\ client' = NoClient
            /\ restarts' = Append(restarts, [Idle EXCEPT !.pc = "done"])
            /\ UNCHANGED <<m_map, watchers, workspaceFolders, phase, projects,
                           descriptors>>]_vars

\* restart_client has returned and there is still no client
C4_Witness ==
    /\ client.state = "undefined"
    /\ Len(restarts) > 0
    /\ restarts[1].pc = "done"

\* C5: a halt that fails while restart_client awaits it is suppressed: no
\* invocation of restart_client ends with the rejection.
C5_HaltFailureSuppressed ==
    \A p \in Invocations : restarts[p].pc # "rejected"

\* C6 as claimed: the connection is started and stopped by restart_client and
\* by no other handler.
C6_OnlyRestartClient == client.by \subseteq {"restart_client"}

\* C6: the connection is started and stopped by restart_client, by activate,
\* which issues the first start, and at shutdown by deactivate and by the
\* disposal of the handle that start returned; by no command and by no handler
\* of the watchers otherwise.
C6_OnlyRestartActivateShutdown ==
    /\ client.by \subseteq {"restart_client", "activate", "deactivate", "subscriptions"}
    /\ "activate" \in client.by <=> phase # "loaded"
    /\ "deactivate" \in client.by <=> phase \in {"deactivated", "disposed"}
    /\ "subscriptions" \in client.by => phase = "disposed"

\* the extension has been shut down after a folder change, a create_project
\* that wrote a descriptor, and restarts
C6_Witness ==
    /\ client.by = {"restart_client", "activate", "deactivate", "subscriptions"}
    /\ nFolderEvents > 0
    /\ \E j \in 1..Len(projects) : projects[j].wrote
    /\ phase = "disposed"

\* the registered keys, and the watchers the map holds
RegisteredKeys(m) == {m[i].key : i \in 1..Len(m)}

Registered(m) == {m[i].value : i \in 1..Len(m)}

\* a registry call was made in this step
Called(op) == lastOp'.op = op /\ nCalls' = nCalls + 1

\* every key but k is registered as before
OthersKept(k) ==
    \A k2 \in Keys \ {k} :
        /\ has(m_map', k2) <=> has(m_map, k2)
        /\ has(m_map, k2) => get(m_map', k2) = get(m_map, k2)

\* C7: the number of registered keys is the number of set calls that returned
\* true minus the number of dispose_and_delete calls that returned true; a key
\* becomes registered only by a set that returns true, and absent only by a
\* dispose_and_delete that returns true.
C7_KeysCounted ==
    /\ [](Cardinality(RegisteredKeys(m_map)) = setOk - delOk)
    /\ [][\A k \in Keys :
            /\ (~has(m_map, k) /\ has(m_map', k))
                  => Called("set") /\ lastOp'.key = k /\ ret' /\ setOk' = setOk + 1
            /\ (has(m_map, k) /\ ~has(m_map', k))
                  => /\ Called("dispose_and_delete") /\ lastOp'.key = k
                     /\ ret' /\ delOk' = delOk + 1
            /\ (has(m_map, k) <=> has(m_map', k))
                  => ~(lastOp'.key = k /\ ret' /\
                         (Called("set") \/ Called("dispose_and_delete")))]_vars

\* keys were registered and removed, and a set and a dispose_and_delete failed
C7_Witness ==
    /\ setOk >= 2
    /\ delOk >= 1
    /\ Len(watchers) > setOk
    /\ Len(m_map) = 1

\* C8: set on a registered key returns false, keeps the registered watcher,
\* and neither stores nor disposes the one passed in; set on an absent key
\* stores the watcher and returns true.
C8_SetKeepsFirst ==
    [][Called("set") =>
        LET s2 == Len(watchers')
            k == lastOp'.key
        IN /\ s2 = Len(watchers) + 1
           /\ watchers'[s2].disposed = 0
           /\ \A w \in 1..Len(watchers) : watchers'[w] = watchers[w]
           /\ OthersKept(k)
           /\ IF has(m_map, k)
              THEN /\ ~ret'
                   /\ m_map' = m_map
                   /\ get(m_map', k) = get(m_map, k)
                   /\ s2 \notin Registered(m_map')
              ELSE /\ ret'
                   /\ has(m_map', k)
                   /\ get(m_map', k) = s2]_vars

\* a set call has been rejected: the key holds the first watcher
C8_Witness ==
    /\ lastOp.op = "set"
    /\ ~ret
    /\ has(m_map, lastOp.key)
    /\ get(m_map, lastOp.key) < Len(watchers)

\* C9: dispose_and_delete on a registered key disposes the watcher registered
\* under it and no other, removes the key and returns true; on an absent key
\* it returns false and changes neither the map nor any watcher.
C9_DisposeAndDelete ==
    [][Called("dispose_and_delete") =>
        LET k == lastOp'.key
        IN IF has(m_map, k)
           THEN /\ ret'
                /\ ~has(m_map', k)
                /\ OthersKept(k)
                /\ watchers' = [watchers EXCEPT ![get(m_map, k)].disposed = @ + 1]
           ELSE /\ ~ret'
                /\ m_map' = m_map
                /\ watchers' = watchers]_vars

\* a key was removed after a set on it had been rejected: the registered
\* watcher is disposed, the rejected one is not
C9_Witness ==
    /\ lastOp.op = "dispose_and_delete"
    /\ ret
    /\ ~has(m_map, lastOp.key)
    /\ \E w1, w2 \in 1..Len(watchers) :
          /\ w1 < w2
          /\ fsPath(watchers[w1].root) = lastOp.key
          /\ fsPath(watchers[w2].root) = lastOp.key
          /\ watchers[w1].disposed = 1
          /\ watchers[w2].disposed = 0

\* C10: dispose calls dispose once on every registered watcher, in whatever
\* order the keys were registered, and on no other watcher; on an empty map it
\* does nothing.
C10_DisposeAllOnce ==
    [][Called("dispose") =>
        /\ Len(watchers') = Len(watchers)
        /\ \A w \in 1..Len(watchers) :
              watchers'[w].disposed =
                 IF w \in Registered(m_map) THEN watchers[w].disposed + 1
                 ELSE watchers[w].disposed
        /\ m_map = <<>> => watchers' = watchers]_vars

\* dispose was called on a map that holds "/b", registered first, and "/a"
C10_Witness ==
    /\ lastOp.op = "dispose"
    /\ Len(m_map) = 2
    /\ m_map[1].key = "/b"
    /\ \A i \in 1..2 : watchers[m_map[i].value].disposed = 1

\* C11: deleting a key is atomic for every other handler.  Handlers see the
\* states between steps only; in none of them has dispose_and_delete released
\* a watcher that is still registered, and no step takes a watcher out of the
\* registry without releasing it in the same step.  A registered watcher is
\* released while it stays registered only by the teardown dispose().
C11_DeleteAtomic ==
    /\ [](\A w \in 1..Len(watchers) :
            (w \in Registered(m_map) /\ watchers[w].disposed > 0)
               => phase = "disposed")
    /\ [][\A w \in 1..Len(watchers) :
            /\ (w \in Registered(m_map) /\ w \notin Registered(m_map'))
                  => watchers'[w].disposed = watchers[w].disposed + 1
            /\ watchers'[w].disposed # watchers[w].disposed
                  => \/ w \in Registered(m_map) /\ w \notin Registered(m_map')
                     \/ /\ phase = "deactivated" /\ phase' = "disposed"
                        /\ w \in Registered(m_map')]_vars

\* a folder was removed while another stays watched and a file event has been
\* handled: the removed folder's watcher is released and gone
C11_Witness ==
    /\ phase = "active"
    /\ delOk >= 1
    /\ Len(m_map) >= 1
    /\ Len(restarts) >= 1
    /\ restarts[1].found # "Initial"
    /\ \E w \in 1..Len(watchers) :
          watchers[w].disposed = 1 /\ w \notin Registered(m_map)

\* the watchers of key k that have not been released, registered or not
Unreleased(k) ==
    {w \in 1..Len(watchers) :
        watchers[w].disposed = 0 /\ fsPath(watchers[w].root) = k}

\* C12: after activation and any workspace-folder changes, at most one
\* unreleased watcher exists per key, counting the watchers the registry holds
\* and the watchers that were created and then rejected by set.
C12_OneWatcherPerKey ==
    phase = "active" => \A k \in Keys : Cardinality(Unreleased(k)) <= 1

\* the keys registered with a watcher that has not been released
WatchedKeys ==
    {m_map[i].key : i \in {j \in 1..Len(m_map) : watchers[m_map[j].value].disposed = 0}}

\* the keys of the workspace folders that are open
ObservedKeys == {fsPath(workspaceFolders[i]) : i \in 1..Len(workspaceFolders)}

\* C13: between activation and shutdown, whatever workspace-folder changes
\* were delivered, the keys registered with an unreleased watcher are the keys
\* of the open workspace folders.
C13_WatchedAreObserved ==
    phase = "active" => WatchedKeys = ObservedKeys

\* the events of a descriptor file that a watcher reports
FileEvents == {"onDidChange", "onDidCreate", "onDidDelete"}

\* C14: between activation and shutdown, each creation, modification and
\* deletion of the descriptor of an open workspace folder is reported by an
\* unreleased watcher of that folder's key to restart_client, and no unreleased
\* watcher is left for a folder that has been removed.
C14_EventsRestart ==
    phase = "active" =>
        /\ \A i \in 1..Len(workspaceFolders) : \A ev \in FileEvents :
              \E w \in Unreleased(fsPath(workspaceFolders[i])) :
                 ev \in watchers[w].handlers
        /\ \A w \in 1..Len(watchers) :
              watchers[w].disposed = 0 => fsPath(watchers[w].root) \in ObservedKeys

\* C15: dispose() leaves the mapping as it was: every key registered before
\* the call is registered after it with the same watcher, has(k) is still
\* true and a set on k would still return false and store nothing; only the
\* watchers are released.
C15_DisposeKeepsMap ==
    [][Called("dispose") =>
        /\ m_map' = m_map
        /\ ret' = ret
        /\ \A k \in Keys :
              has(m_map, k) =>
                 /\ has(m_map', k)
                 /\ get(m_map', k) = get(m_map, k)
                 /\ ~set(m_map', k, Len(watchers') + 1).ret
                 /\ set(m_map', k, Len(watchers') + 1).map = m_map]_vars

\* after dispose() released the watcher of a key, a set on that key was
\* rejected: the key still holds the released watcher
C15_Witness ==
    /\ lastOp.op = "set"
    /\ ~ret
    /\ has(m_map, lastOp.key)
    /\ watchers[get(m_map, lastOp.key)].disposed >= 1
    /\ watchers[Len(watchers)].disposed = 0

\* no promise of stop() has been rejected
NoHaltFailed ==
    \A i \in 1..Len(client.promises) : client.promises[i].status # "rejected"

\* the client exists, shutdown has not begun, no halt has failed and no
\* invocation of restart_client is suspended
Settled ==
    /\ client.state # "undefined"
    /\ phase = "active"
    /\ NoHaltFailed
    /\ Awaiting(restarts) = {}

\* where invocation p of restart_client stands
pcOf(p) == IF p <= Len(restarts) THEN restarts[p].pc ELSE "none"

\* every invocation of restart_client that is suspended is resumed and ends
RestartsTerminate ==
    \A p \in 1..MaxRestarts :
        (pcOf(p) = "awaitStop") ~> (pcOf(p) \in {"done", "rejected"})

C17_NoStartAfterShutdown ==
    [][(phase \in {"deactivated", "disposed"}) =>
        \A p \in 1..Len(restarts') :
            restarts'[p].started => (p <= Len(restarts) /\ restarts[p].started)]_vars

\* C18: over any sequence of set, dispose_and_delete and dispose calls on one
\* registry, no watcher is released more than once.
C18_ReleasedAtMostOnce ==
    \A w \in 1..Len(watchers) : watchers[w].disposed <= 1

\* C19: create_project writes a descriptor only where none exists at the time
\* of the write, also when two invocations for one folder interleave at their
\* awaits; and restart_client is invoked by it only after a write that
\* succeeded, once per such write.
C19_NeverOverwrites ==
    /\ \A j \in 1..Len(projects) : ~projects[j].overwrote
    /\ Len(restarts) = Cardinality({j \in 1..Len(projects) : projects[j].wrote})

====
